---- MODULE Spec2Model ----
(***************************************************************************)
(* exif-rename: a model of src/main.rs.                                    *)
(*                                                                         *)
(* A string is a sequence of one-character strings.  A Vars value (the     *)
(* HashMap<String, String> of the source) is a function from strings to    *)
(* strings.  An Option is a sequence of length 0 (None) or 1 (Some).       *)
(***************************************************************************)
EXTENDS Integers, Sequences, FiniteSets

VARIABLES pc, text, readable, pattern, file, exif_vars, vars, filename,
          rename_result, renames, stdout, stderr, exit_code, arg, ret

io_vars == <<text, readable, pattern, file, exif_vars, vars, filename,
             rename_result, renames, stdout, stderr, exit_code>>
all_vars == <<pc, text, readable, pattern, file, exif_vars, vars, filename,
              rename_result, renames, stdout, stderr, exit_code, arg, ret>>

\* ------------------------------------------------------------ bounds
\* longest metadata text of the parser's specification
MaxTextLen == 5
\* longest filename of the filename deriver's specification
MaxNameLen == 5
\* longest generated pattern of the main specification
MaxPatLen == 5

\* ------------------------------------------------------------ strings
None == <<>>
Some(x) == <<x>>

Digits == {"0", "1", "2", "3", "4", "5", "6", "7", "8", "9"}
Letters == {"A", "B", "C", "D", "E", "F", "G", "H", "I", "J", "K", "L", "M",
            "N", "O", "P", "Q", "R", "S", "T", "U", "V", "W", "X", "Y", "Z",
            "a", "b", "c", "d", "e", "f", "g", "h", "i", "j", "k", "l", "m",
            "n", "o", "p", "q", "r", "s", "t", "u", "v", "w", "x", "y", "z"}
\* char::is_whitespace, restricted to the characters of the model
White == {" ", "\t", "\r", "\n"}

\* all strings over alphabet A of length at most n
StringsUpTo(A, n) == UNION {[1..k -> A] : k \in 0..n}

Tail2(s, i) == SubSeq(s, i, Len(s))

\* str::find of a character: the first index of c in s, 0 when absent
RECURSIVE FindFrom(_, _, _)
FindFrom(s, c, i) ==
    IF i > Len(s) THEN 0
    ELSE IF s[i] = c THEN i
    ELSE FindFrom(s, c, i + 1)

\* str::trim
RECURSIVE trim_start(_)
trim_start(s) ==
    IF s # <<>> /\ Head(s) \in White THEN trim_start(Tail(s)) ELSE s

RECURSIVE trim_end(_)
trim_end(s) ==
    IF s # <<>> /\ s[Len(s)] \in White
    THEN trim_end(SubSeq(s, 1, Len(s) - 1))
    ELSE s

trim(s) == trim_end(trim_start(s))

\* ------------------------------------------------------------ Vars
EmptyVars == [k \in {} |-> <<>>]

\* HashMap::insert
Insert(m, k, v) == [x \in DOMAIN m \cup {k} |-> IF x = k THEN v ELSE m[x]]

\* HashMap::extend: every entry of other is inserted, one after the other
RECURSIVE ExtendKeys(_, _, _)
ExtendKeys(m, other, keys) ==
    IF keys = {} THEN m
    ELSE LET k == CHOOSE x \in keys : TRUE
         IN  ExtendKeys(Insert(m, k, other[k]), other, keys \ {k})

Extend(m, other) == ExtendKeys(m, other, DOMAIN other)

\* ------------------------------------------------------------ read_lines
\* str::lines: split after every "\n"; a line loses its "\n" and a "\r"
\* before it; no line is produced for the empty remainder.
strip_line(l) ==
    IF l # <<>> /\ l[Len(l)] = "\r" THEN SubSeq(l, 1, Len(l) - 1) ELSE l

RECURSIVE lines(_)
lines(s) ==
    IF s = <<>> THEN <<>>
    ELSE LET i == FindFrom(s, "\n", 1)
         IN  IF i = 0 THEN <<s>>
             ELSE <<strip_line(SubSeq(s, 1, i - 1))>> \o lines(Tail2(s, i + 1))

\* ------------------------------------------------------------ split_exif_line
\* str::splitn(2, ":")
splitn2(s) ==
    LET i == FindFrom(s, ":", 1)
    IN  IF i = 0 THEN <<s>>
        ELSE <<SubSeq(s, 1, i - 1), Tail2(s, i + 1)>>

split_exif_line(s) ==
    LET tokens == splitn2(s)
    IN  IF Len(tokens) = 2
        THEN Some(<<trim(tokens[1]), trim(tokens[2])>>)
        ELSE None

\* ------------------------------------------------------------ read_exif_file
\* read_exif_loop keeping the first value of a key instead of the last
RECURSIVE read_exif_loop_first_wins(_, _)
read_exif_loop_first_wins(m, ls) ==
    IF ls = <<>> THEN m
    ELSE LET kv == split_exif_line(Head(ls))
         IN  IF kv # None /\ kv[1][1] \notin DOMAIN m
             THEN read_exif_loop_first_wins(Insert(m, kv[1][1], kv[1][2]), Tail(ls))
             ELSE read_exif_loop_first_wins(m, Tail(ls))

RECURSIVE read_exif_loop(_, _)
read_exif_loop(m, ls) ==
    IF ls = <<>> THEN m
    ELSE LET kv == split_exif_line(Head(ls))
         IN  IF kv # None
             THEN read_exif_loop(Insert(m, kv[1][1], kv[1][2]), Tail(ls))
             ELSE read_exif_loop(m, Tail(ls))

\* the content is the text read_lines got from the file
read_exif_file(content) == read_exif_loop(EmptyVars, lines(content))

\* ------------------------------------------------------------ numbers
DigitChar(d) == <<"0", "1", "2", "3", "4", "5", "6", "7", "8", "9">>[d + 1]
DigitVal(c) == CHOOSE d \in 0..9 : DigitChar(d) = c

\* u32/i32 to_string, for n >= 0
RECURSIVE to_string(_)
to_string(n) ==
    IF n < 10 THEN <<DigitChar(n)>>
    ELSE to_string(n \div 10) \o <<DigitChar(n % 10)>>

\* format!("{:02}", n): zero-padded to a width of at least 2
fmt02(n) == IF n < 10 THEN <<"0">> \o to_string(n) ELSE to_string(n)

RECURSIVE to_int(_)
to_int(s) ==
    IF s = <<>> THEN 0
    ELSE to_int(SubSeq(s, 1, Len(s) - 1)) * 10 + DigitVal(s[Len(s)])

\* the number of leading decimal digits of s, at most w
RECURSIVE leading_digits(_, _)
leading_digits(s, w) ==
    IF w = 0 \/ s = <<>> \/ Head(s) \notin Digits THEN 0
    ELSE 1 + leading_digits(Tail(s), w - 1)

\* ------------------------------------------------------------ chrono parsing
\* A scan state: ok, the unread rest, and the numeric fields read so far.
ScanStart(s) == [ok |-> TRUE, rest |-> s, got |-> <<>>]
ScanFail == [ok |-> FALSE, rest |-> <<>>, got |-> <<>>]

\* a numeric item (%Y, %m, %d, %H, %M, %S): leading white space is skipped,
\* then one to w digits are read
ScanNum(st, w) ==
    IF ~st.ok THEN ScanFail
    ELSE LET s == trim_start(st.rest)
             n == leading_digits(s, w)
         IN  IF n = 0 THEN ScanFail
             ELSE [ok |-> TRUE, rest |-> Tail2(s, n + 1),
                   got |-> Append(st.got, to_int(SubSeq(s, 1, n)))]

\* a literal character of the format
ScanLit(st, c) ==
    IF ~st.ok \/ st.rest = <<>> \/ Head(st.rest) # c THEN ScanFail
    ELSE [st EXCEPT !.rest = Tail(st.rest)]

\* a space of the format: any run of white space
ScanSpace(st) ==
    IF ~st.ok THEN ScanFail ELSE [st EXCEPT !.rest = trim_start(st.rest)]

\* %z: a sign, two digits of hours, an optional colon, two digits of minutes
ScanOffset(st) ==
    IF ~st.ok THEN ScanFail
    ELSE LET s == trim_start(st.rest)
         IN  IF s = <<>> \/ Head(s) \notin {"+", "-"} THEN ScanFail
             ELSE LET h == Tail(s)
                  IN  IF leading_digits(h, 2) # 2 THEN ScanFail
                      ELSE LET r == Tail2(h, 3)
                               m == IF r # <<>> /\ Head(r) = ":" THEN Tail(r) ELSE r
                           IN  IF leading_digits(m, 2) # 2
                                  \/ to_int(SubSeq(m, 1, 2)) > 59
                               THEN ScanFail
                               ELSE [st EXCEPT !.rest = Tail2(m, 3)]

\* the items of "%Y:%m:%d %H:%M:%S"
ScanDateTime(s) ==
    LET y  == ScanNum(ScanStart(s), 4)
        mo == ScanNum(ScanLit(y, ":"), 2)
        d  == ScanNum(ScanLit(mo, ":"), 2)
        h  == ScanNum(ScanSpace(d), 2)
        mi == ScanNum(ScanLit(h, ":"), 2)
    IN  ScanNum(ScanLit(mi, ":"), 2)

IsLeap(y) == (y % 4 = 0 /\ y % 100 # 0) \/ y % 400 = 0

DaysInMonth(y, m) ==
    IF m = 2 THEN (IF IsLeap(y) THEN 29 ELSE 28)
    ELSE IF m \in {4, 6, 9, 11} THEN 30 ELSE 31

\* the fields make a date and a time of day (second 60 is a leap second,
\* kept as second 59)
FieldsValid(g) ==
    /\ g[2] \in 1..12
    /\ g[3] >= 1 /\ g[3] <= DaysInMonth(g[1], g[2])
    /\ g[4] <= 23 /\ g[5] <= 59 /\ g[6] <= 60

ToNaive(g) ==
    [year |-> g[1], month |-> g[2], day |-> g[3],
     hour |-> g[4], minute |-> g[5], second |-> IF g[6] = 60 THEN 59 ELSE g[6]]

\* NaiveDateTime::parse_from_str(s, "%Y:%m:%d %H:%M:%S")
parse_naive(s) ==
    LET st == ScanDateTime(s)
    IN  IF st.ok /\ st.rest = <<>> /\ FieldsValid(st.got)
        THEN Some(ToNaive(st.got)) ELSE None

\* DateTime::parse_from_str(s, "%Y:%m:%d %H:%M:%S%z"), then naive_local():
\* the clock fields as written, the offset only consumed
parse_with_offset(s) ==
    LET st == ScanDateTime(s)
        z  == ScanOffset(st)
    IN  IF z.ok /\ z.rest = <<>> /\ FieldsValid(z.got)
        THEN Some(ToNaive(z.got)) ELSE None

\* ------------------------------------------------------------ parse_datetime_from_string
parse_datetime_from_string(s) ==
    IF parse_naive(s) # None THEN parse_naive(s)
    ELSE parse_with_offset(s)

\* ------------------------------------------------------------ calendar
RECURSIVE DaysBeforeMonth(_, _)
DaysBeforeMonth(y, m) ==
    IF m = 1 THEN 0 ELSE DaysBeforeMonth(y, m - 1) + DaysInMonth(y, m - 1)

\* Datelike::ordinal: the day of the year, from 1
Ordinal(dt) == DaysBeforeMonth(dt.year, dt.month) + dt.day

\* days from 0001-01-01 (a Monday) to the first day of year y
DaysBeforeYear(y) ==
    365 * (y - 1) + ((y - 1) \div 4) - ((y - 1) \div 100) + ((y - 1) \div 400)

\* Datelike::weekday, Monday = 1 .. Sunday = 7
WeekdayNum(y, ord) == ((DaysBeforeYear(y) + ord - 1) % 7) + 1

\* Weekday's Display
WeekdayName(n) ==
    << <<"M", "o", "n">>, <<"T", "u", "e">>, <<"W", "e", "d">>,
       <<"T", "h", "u">>, <<"F", "r", "i">>, <<"S", "a", "t">>,
       <<"S", "u", "n">> >>[n]

\* the number of ISO weeks of year y
WeeksInYear(y) ==
    LET jan1 == WeekdayNum(y, 1)
    IN  IF jan1 = 4 \/ (IsLeap(y) /\ jan1 = 3) THEN 53 ELSE 52

\* Datelike::iso_week().week()
IsoWeek(dt) ==
    LET ord == Ordinal(dt)
        w   == (ord - WeekdayNum(dt.year, ord) + 10) \div 7
    IN  IF w < 1 THEN WeeksInYear(dt.year - 1)
        ELSE IF w > WeeksInYear(dt.year) THEN 1
        ELSE w

\* hour12 as the bare remainder, 0 to 11
hour12_from_zero(h) == h % 12

\* Timelike::hour12: the hour from 1 to 12 (its second component)
hour12(h) == IF h % 12 = 0 THEN 12 ELSE h % 12

\* ------------------------------------------------------------ create_vars_from_create_date
\* the value stored under "y"
year2(dt) == to_string(dt.year % 100)

\* the value stored under "h"
hour_h(dt) == fmt02(hour12(dt.hour))

date_vars(dt) ==
    LET v1  == Insert(EmptyVars, <<"Y">>, to_string(dt.year))
        v2  == Insert(v1, <<"y">>, year2(dt))
        v3  == Insert(v2, <<"m">>, fmt02(dt.month))
        v4  == Insert(v3, <<"D">>, fmt02(dt.day))
        v5  == Insert(v4, <<"t">>,
                      fmt02(dt.hour) \o fmt02(dt.minute) \o fmt02(dt.second))
        v6  == Insert(v5, <<"H">>, fmt02(dt.hour))
        v7  == Insert(v6, <<"h">>, hour_h(dt))
        v8  == Insert(v7, <<"M">>, fmt02(dt.minute))
        v9  == Insert(v8, <<"S">>, fmt02(dt.second))
        v10 == Insert(v9, <<"W">>, fmt02(IsoWeek(dt)))
    IN  Insert(v10, <<"a">>, WeekdayName(WeekdayNum(dt.year, Ordinal(dt))))

create_vars_from_create_date(create_date) ==
    LET datetime == parse_datetime_from_string(create_date)
    IN  IF datetime # None THEN date_vars(datetime[1]) ELSE EmptyVars

\* ------------------------------------------------------------ create_vars_from_filename
\* The pattern (.*\D)(\d*)\.([a-zA-Z0-9]+), searched anywhere in the input
\* (Regex::captures is not anchored).  "." is any character but "\n"; \D is
\* any character but a digit.
Alnum == Letters \cup Digits

\* the ends i1 of group 1, (.*\D), when it starts at st
GroupEnds(s, st) ==
    {i1 \in st..Len(s) :
        /\ s[i1] \notin Digits
        /\ \A j \in st..(i1 - 1) : s[j] # "\n"}

\* the ends i2 of group 2, (\d*), when group 1 ends at i1
DigitEnds(s, i1) ==
    {i2 \in i1..Len(s) : \A j \in (i1 + 1)..i2 : s[j] \in Digits}

\* the ends of group 3, after the dot that follows group 2
ExtEnds(s, i2) ==
    IF i2 + 1 <= Len(s) /\ s[i2 + 1] = "."
    THEN {en \in (i2 + 2)..Len(s) : \A j \in (i2 + 2)..en : s[j] \in Alnum}
    ELSE {}

DigitEndsOk(s, i1) == {i2 \in DigitEnds(s, i1) : ExtEnds(s, i2) # {}}
GroupEndsOk(s, st) == {i1 \in GroupEnds(s, st) : DigitEndsOk(s, i1) # {}}
MatchStarts(s) == {st \in 1..Len(s) : GroupEndsOk(s, st) # {}}

SetMin(S) == CHOOSE x \in S : \A y \in S : x <= y
SetMax(S) == CHOOSE x \in S : \A y \in S : x >= y

\* the start of the leftmost match; every quantifier is greedy
MatchStart(s) == SetMin(MatchStarts(s))

\* captures with a lazy first group, (.*?\D)
captures_lazy(s) ==
    IF MatchStarts(s) = {} THEN None
    ELSE LET st == MatchStart(s)
             i1 == SetMin(GroupEndsOk(s, st))
             i2 == SetMax(DigitEndsOk(s, i1))
             en == SetMax(ExtEnds(s, i2))
         IN  Some(<<SubSeq(s, st, i1), SubSeq(s, i1 + 1, i2),
                    SubSeq(s, i2 + 2, en)>>)

\* Regex::captures: None, or the three groups of the leftmost match
captures(s) ==
    IF MatchStarts(s) = {} THEN None
    ELSE LET st == MatchStart(s)
             i1 == SetMax(GroupEndsOk(s, st))
             i2 == SetMax(DigitEndsOk(s, i1))
             en == SetMax(ExtEnds(s, i2))
         IN  Some(<<SubSeq(s, st, i1), SubSeq(s, i1 + 1, i2),
                    SubSeq(s, i2 + 2, en)>>)

create_vars_from_filename(fname) ==
    LET groups == captures(fname)
    IN  IF groups # None
        THEN Insert(Insert(Insert(EmptyVars, <<"f">>, groups[1][1]),
                           <<"r">>, groups[1][2]),
                    <<"e">>, groups[1][3])
        ELSE EmptyVars

\* ------------------------------------------------------------ extend_vars
K_CreateDate == <<"C", "r", "e", "a", "t", "e", "D", "a", "t", "e">>
K_FileName == <<"F", "i", "l", "e", "N", "a", "m", "e">>
K_Model == <<"M", "o", "d", "e", "l">>
K_T2 == <<"T", "2">>

extend_vars(ev) ==
    LET v1 == IF K_CreateDate \in DOMAIN ev
              THEN Extend(EmptyVars, create_vars_from_create_date(ev[K_CreateDate]))
              ELSE EmptyVars
        v2 == IF K_FileName \in DOMAIN ev
              THEN Extend(v1, create_vars_from_filename(ev[K_FileName]))
              ELSE v1
    IN  IF K_Model \in DOMAIN ev THEN Insert(v2, K_T2, ev[K_Model]) ELSE v2

\* the merge the other way round: the derived variables win
merge_vars_derived_wins(derived, raw) == Extend(raw, derived)

\* main, lines 141-142: the derived variables, then extended with the raw ones
merge_vars(derived, raw) == Extend(derived, raw)

\* ------------------------------------------------------------ strfmt
\* The scan of strfmt over the pattern, one character at a time.  "{{" and
\* "}}" are the escapes of a brace; a "{" opens a placeholder that the next
\* "}" closes; the name is looked up in the mapping and its value written
\* to the output.  Patterns of the model hold no ":" (a format
\* specification after the name).
FmtStart(s) ==
    [out |-> <<>>, bytes_read |-> 0, opening_brace |-> 0,
     closing_brace |-> FALSE, reading_fmt |-> FALSE, remaining |-> s,
     err |-> None]

FmtErr(st, e) == [st EXCEPT !.err = Some(e)]

\* FmtClose writing nothing for a name that is not a key
FmtClose_lenient(st, m) ==
    LET r     == Tail2(st.remaining, st.opening_brace + 1)
        n     == st.bytes_read - st.opening_brace
        fmt   == SubSeq(r, 1, n)
        ident == SubSeq(fmt, 2, Len(fmt) - 1)
    IN  [st EXCEPT !.out = st.out \o (IF ident \in DOMAIN m THEN m[ident] ELSE <<>>),
                   !.remaining = Tail2(r, n + 1),
                   !.reading_fmt = FALSE,
                   !.bytes_read = 0]

\* FmtClose that does not advance the unread rest of the pattern
FmtClose_stale_remaining(st, m) ==
    LET r     == Tail2(st.remaining, st.opening_brace + 1)
        n     == st.bytes_read - st.opening_brace
        fmt   == SubSeq(r, 1, n)
        ident == SubSeq(fmt, 2, Len(fmt) - 1)
    IN  IF ident = <<>> THEN FmtErr(st, <<"Invalid", ident>>)
        ELSE IF ident \notin DOMAIN m THEN FmtErr(st, <<"KeyError", ident>>)
        ELSE [st EXCEPT !.out = st.out \o m[ident],
                        !.reading_fmt = FALSE,
                        !.bytes_read = 0]

\* a "}" that closes a placeholder: the name between the braces is resolved
FmtClose(st, m) ==
    LET r     == Tail2(st.remaining, st.opening_brace + 1)
        n     == st.bytes_read - st.opening_brace
        fmt   == SubSeq(r, 1, n)
        ident == SubSeq(fmt, 2, Len(fmt) - 1)
    IN  IF ident = <<>> THEN FmtErr(st, <<"Invalid", ident>>)
        ELSE IF ident \notin DOMAIN m THEN FmtErr(st, <<"KeyError", ident>>)
        ELSE [st EXCEPT !.out = st.out \o m[ident],
                        !.remaining = Tail2(r, n + 1),
                        !.reading_fmt = FALSE,
                        !.bytes_read = 0]

FmtStep(st0, c, m) ==
    LET st == [st0 EXCEPT !.bytes_read = st0.bytes_read + 1]
    IN  IF c = "{" THEN
            IF st.reading_fmt /\ st.opening_brace = st.bytes_read - 2
            THEN [st EXCEPT !.out = Append(st.out, c), !.reading_fmt = FALSE]
            ELSE IF ~st.reading_fmt
            THEN [st EXCEPT !.reading_fmt = TRUE,
                            !.opening_brace = st.bytes_read - 1]
            ELSE FmtErr(st, <<"Invalid", <<>>>>)
        ELSE IF c = "}" THEN
            IF ~st.reading_fmt /\ ~st.closing_brace
            THEN [st EXCEPT !.closing_brace = TRUE]
            ELSE IF st.closing_brace
            THEN [st EXCEPT !.out = Append(st.out, c), !.closing_brace = FALSE]
            ELSE FmtClose(st, m)
        ELSE IF st.closing_brace THEN FmtErr(st, <<"Invalid", <<>>>>)
        ELSE IF ~st.reading_fmt THEN [st EXCEPT !.out = Append(st.out, c)]
        ELSE st

RECURSIVE FmtLoop(_, _, _, _)
FmtLoop(st, s, i, m) ==
    IF st.err # None \/ i > Len(s) THEN st
    ELSE FmtLoop(FmtStep(st, s[i], m), s, i + 1, m)

\* Result<String, FmtError>
strfmt(fmtstr, m) ==
    LET st == FmtLoop(FmtStart(fmtstr), fmtstr, 1, m)
    IN  IF st.err # None THEN [ok |-> FALSE, val |-> st.err[1]]
        ELSE IF st.closing_brace \/ st.reading_fmt
        THEN [ok |-> FALSE, val |-> <<"Invalid", <<>>>>]
        ELSE [ok |-> TRUE, val |-> st.out]

\* ------------------------------------------------------------ inputs of main
\* lines of metadata files, the pattern and the result of test_format_filename
L_CreateDate ==
    <<"C", "r", "e", "a", "t", "e", "D", "a", "t", "e", ":", " ", "2", "0",
      "2", "3", ":", "0", "9", ":", "0", "8", " ", "1", "8", ":", "5", "6",
      ":", "5", "4">>

L_FileName ==
    <<"F", "i", "l", "e", "N", "a", "m", "e", ":", " ", "I", "M", "G", "_",
      "9", "8", "7", "6", ".", "J", "P", "G">>

L_Model ==
    <<"M", "o", "d", "e", "l", ":", " ", "i", "P", "h", "o", "n", "e", " ",
      "1", "4">>

L_BadDate ==
    <<"C", "r", "e", "a", "t", "e", "D", "a", "t", "e", ":", " ", "n", "o",
      "t", "-", "a", "-", "d", "a", "t", "e">>

L_Header ==
    <<"E", "x", "i", "f", "T", "o", "o", "l", " ", "d", "u", "m", "p">>

L_RawY ==
    <<"y", ":", " ", "{", "m", "}">>

ExamplePattern ==
    <<"{", "y", "}", "{", "m", "}", "{", "D", "}", "_", "{", "t", "}", "_",
      "{", "T", "2", "}", "_", "{", "r", "}", ".", "{", "e", "}">>

ExampleExpected ==
    <<"2", "3", "0", "9", "0", "8", "_", "1", "8", "5", "6", "5", "4", "_",
      "i", "P", "h", "o", "n", "e", " ", "1", "4", "_", "9", "8", "7", "6",
      ".", "J", "P", "G">>

SourcePath ==
    <<"a", ".", "j", "p", "g">>

\* lines joined into the content of a file
RECURSIVE JoinLines(_)
JoinLines(ls) ==
    IF ls = <<>> THEN <<>>
    ELSE IF Len(ls) = 1 THEN ls[1]
    ELSE ls[1] \o <<"\n">> \o JoinLines(Tail(ls))

ExampleText == JoinLines(<<L_CreateDate, L_FileName, L_Model>>)

Texts ==
    {ExampleText,
     <<>>,
     JoinLines(<<L_Header, L_BadDate, L_FileName>>),
     JoinLines(<<L_CreateDate, L_RawY>>),
     JoinLines(<<L_RawY, L_Model>>),
     JoinLines(<<L_CreateDate>>)}

PatternChars == {"{", "}", "y"}
Patterns == StringsUpTo(PatternChars, MaxPatLen) \cup {ExamplePattern}

\* ------------------------------------------------------------ main
\* pc is the position in main: "start", "extend", "merge", "format",
\* "rename", "print", then "done" (main returned) or "panicked" (an unwrap
\* failed and the process aborted).
ExitOk == 0
ExitPanic == 101

MainInit ==
    /\ pc = "start"
    /\ readable \in BOOLEAN
    /\ text \in (IF readable THEN Texts ELSE {<<>>})
    /\ pattern \in Patterns
    /\ file \in {None, Some(SourcePath)}
    /\ exif_vars = EmptyVars
    /\ vars = EmptyVars
    /\ filename = None
    /\ rename_result = "none"
    /\ renames = 0
    /\ stdout = <<>>
    /\ stderr = <<>>
    /\ exit_code = None
    /\ arg = None
    /\ ret = None

\* read_lines: read_to_string(filename).unwrap() panics on an unreadable file
ReadPanics ==
    /\ pc = "start"
    /\ ~readable
    /\ pc' = "panicked"
    /\ stderr' = Append(stderr, <<"panic", "read">>)
    /\ exit_code' = Some(ExitPanic)
    /\ UNCHANGED <<text, readable, pattern, file, exif_vars, vars, filename,
                   rename_result, renames, stdout, arg, ret>>

\* read_exif_file(exif_filename) returns Ok(exif_vars)
ReadExifFile ==
    /\ pc = "start"
    /\ readable
    /\ exif_vars' = read_exif_file(text)
    /\ pc' = "extend"
    /\ UNCHANGED <<text, readable, pattern, file, vars, filename,
                   rename_result, renames, stdout, stderr, exit_code, arg, ret>>

\* the diagnostic of parse_datetime_from_string for a CreateDate that does
\* not parse
ParseDiag(ev) ==
    IF K_CreateDate \in DOMAIN ev
       /\ parse_datetime_from_string(ev[K_CreateDate]) = None
    THEN << <<"parse error">> >> ELSE <<>>

\* let mut vars = extend_vars(&exif_vars)
ExtendVars ==
    /\ pc = "extend"
    /\ vars' = extend_vars(exif_vars)
    /\ stderr' = stderr \o ParseDiag(exif_vars)
    /\ pc' = "merge"
    /\ UNCHANGED <<text, readable, pattern, file, exif_vars, filename,
                   rename_result, renames, stdout, exit_code, arg, ret>>

\* vars.extend(exif_vars)
MergeVars ==
    /\ pc = "merge"
    /\ vars' = merge_vars(vars, exif_vars)
    /\ pc' = "format"
    /\ UNCHANGED <<text, readable, pattern, file, exif_vars, filename,
                   rename_result, renames, stdout, stderr, exit_code, arg, ret>>

\* main renaming whether or not a file was given
AfterFormat_always_rename(f) == "rename"

\* where main goes once the filename is formatted
AfterFormat(f) == IF f # None THEN "rename" ELSE "print"

\* format_filename: strfmt(pattern, vars).unwrap() returned the filename
FormatFilename ==
    /\ pc = "format"
    /\ strfmt(pattern, vars).ok
    /\ filename' = Some(strfmt(pattern, vars).val)
    /\ pc' = AfterFormat(file)
    /\ UNCHANGED <<text, readable, pattern, file, exif_vars, vars,
                   rename_result, renames, stdout, stderr, exit_code, arg, ret>>

\* format_filename: the unwrap of an Err panics
FormatPanics ==
    /\ pc = "format"
    /\ ~strfmt(pattern, vars).ok
    /\ pc' = "panicked"
    /\ stderr' = Append(stderr, <<"panic", strfmt(pattern, vars).val>>)
    /\ exit_code' = Some(ExitPanic)
    /\ UNCHANGED <<text, readable, pattern, file, exif_vars, vars, filename,
                   rename_result, renames, stdout, arg, ret>>

\* the exit status of main after a failed rename: main returns normally
ExitAfterRenameErr == ExitOk

\* rename(source_filename, filename) succeeds
RenameOk ==
    /\ pc = "rename"
    /\ renames' = renames + 1
    /\ rename_result' = "ok"
    /\ stdout' = Append(stdout, <<file, "->", filename>>)
    /\ pc' = "done"
    /\ exit_code' = Some(ExitOk)
    /\ UNCHANGED <<text, readable, pattern, file, exif_vars, vars, filename,
                   stderr, arg, ret>>

\* rename(source_filename, filename) fails: eprintln!("Error: {}", e)
RenameErr ==
    /\ pc = "rename"
    /\ renames' = renames + 1
    /\ rename_result' = "err"
    /\ stderr' = Append(stderr, <<"Error", "rename">>)
    /\ pc' = "done"
    /\ exit_code' = Some(ExitAfterRenameErr)
    /\ UNCHANGED <<text, readable, pattern, file, exif_vars, vars, filename,
                   stdout, arg, ret>>

\* no file to rename: println!("{}", filename)
PrintFilename ==
    /\ pc = "print"
    /\ stdout' = Append(stdout, <<filename>>)
    /\ pc' = "done"
    /\ exit_code' = Some(ExitOk)
    /\ UNCHANGED <<text, readable, pattern, file, exif_vars, vars, filename,
                   rename_result, renames, stderr, arg, ret>>

Next ==
    \/ ReadPanics
    \/ ReadExifFile
    \/ ExtendVars
    \/ MergeVars
    \/ FormatFilename
    \/ FormatPanics
    \/ RenameOk
    \/ RenameErr
    \/ PrintFilename

Spec == MainInit /\ [][Next]_all_vars

\* ------------------------------------------------------------ the functions alone
\* A call of one function of the program: pc is "call", then "returned"
\* with the result in ret.  The variables of main are not in use.
CallInit(inputs) ==
    /\ pc = "call"
    /\ arg \in inputs
    /\ ret = None
    /\ text = <<>>
    /\ readable = TRUE
    /\ pattern = <<>>
    /\ file = None
    /\ exif_vars = EmptyVars
    /\ vars = EmptyVars
    /\ filename = None
    /\ rename_result = "none"
    /\ renames = 0
    /\ stdout = <<>>
    /\ stderr = <<>>
    /\ exit_code = None

Return(result) ==
    /\ pc = "call"
    /\ ret' = result
    /\ pc' = "returned"
    /\ UNCHANGED <<arg, text, readable, pattern, file, exif_vars, vars,
                   filename, rename_result, renames, stdout, stderr, exit_code>>

\* read_exif_file over every short text
TextChars == {"a", "b", ":", " ", "\n"}
ExifTexts == StringsUpTo(TextChars, MaxTextLen)
CallReadExifFile == Return(read_exif_file(arg))
SpecExif == CallInit(ExifTexts) /\ [][CallReadExifFile]_all_vars

\* create_vars_from_filename over every short filename, and the filename of
\* test_create_vars_from_filename
IMG_1234 == <<"I", "M", "G", "_", "1", "2", "3", "4", ".", "J", "P", "G">>
NameChars == {"a", "1", ".", "~", "\n"}
FileNames == StringsUpTo(NameChars, MaxNameLen) \cup {IMG_1234}
CallCreateVarsFromFilename == Return(create_vars_from_filename(arg))
SpecFilename == CallInit(FileNames) /\ [][CallCreateVarsFromFilename]_all_vars

\* create_vars_from_create_date over timestamps of both formats, and over
\* strings of neither
NotADate == <<"n", "o", "t", "-", "a", "-", "d", "a", "t", "e">>
Years == {1999, 2000, 2005, 2023, 2024}
Months == {1, 2, 9, 12}
Days == {1, 8, 29, 31}
Hours == {0, 6, 11, 12, 13, 18, 23}
Minutes == {5, 56}
Seconds == {54}
Suffixes == {<<>>, <<"+", "0", "2", "0", "0">>, <<"x">>}

Timestamp(y, mo, d, h, mi, sec, suffix) ==
    to_string(y) \o <<":">> \o fmt02(mo) \o <<":">> \o fmt02(d) \o <<" ">>
    \o fmt02(h) \o <<":">> \o fmt02(mi) \o <<":">> \o fmt02(sec) \o suffix

CreateDates ==
    {Timestamp(y, mo, d, h, mi, sec, z) :
        y \in Years, mo \in Months, d \in Days, h \in Hours,
        mi \in Minutes, sec \in Seconds, z \in Suffixes}
    \cup {NotADate}
CallCreateVarsFromCreateDate == Return(create_vars_from_create_date(arg))
SpecDate == CallInit(CreateDates) /\ [][CallCreateVarsFromCreateDate]_all_vars

\* extend_vars and the merge of main over raw records with and without the
\* source fields, and with raw keys that are also derived codes
Opt(m, present, k, v) == IF present THEN Insert(m, k, v) ELSE m

RawValues == {<<"r", "a", "w">>, <<>>}
RawCreateDates ==
    {None, Some(NotADate), Some(Timestamp(2023, 9, 8, 18, 56, 54, <<>>))}
RawFileNames == {None, Some(IMG_1234), Some(<<"n", "o", "e", "x", "t">>)}
RawModels == {None, Some(<<"i", "P", "h", "o", "n", "e", " ", "1", "4">>)}

RawRecord(cd, fn, md, y, t2, other) ==
    LET r1 == Opt(EmptyVars, cd # None, K_CreateDate, IF cd # None THEN cd[1] ELSE <<>>)
        r2 == Opt(r1, fn # None, K_FileName, IF fn # None THEN fn[1] ELSE <<>>)
        r3 == Opt(r2, md # None, K_Model, IF md # None THEN md[1] ELSE <<>>)
        r4 == Opt(r3, y # None, <<"Y">>, IF y # None THEN y[1] ELSE <<>>)
        r5 == Opt(r4, t2 # None, K_T2, IF t2 # None THEN t2[1] ELSE <<>>)
    IN  Opt(r5, other # None, <<"f">>, IF other # None THEN other[1] ELSE <<>>)

OptRaw == {None} \cup {Some(v) : v \in RawValues}

RawRecords ==
    {RawRecord(cd, fn, md, y, t2, f) :
        cd \in RawCreateDates, fn \in RawFileNames, md \in RawModels,
        y \in OptRaw, t2 \in OptRaw, f \in OptRaw}

\* main, lines 141-142, on the record arg
CallMerge ==
    Return([derived |-> extend_vars(arg),
            merged |-> merge_vars(extend_vars(arg), arg)])
SpecMerge == CallInit(RawRecords) /\ [][CallMerge]_all_vars

\* ============================================================ properties
\* what the properties say of a line, stated apart from the parser
NonWhiteAt(s) == {i \in 1..Len(s) : s[i] \notin White}
Trimmed(s) ==
    IF NonWhiteAt(s) = {} THEN <<>>
    ELSE SubSeq(s, SetMin(NonWhiteAt(s)), SetMax(NonWhiteAt(s)))
ColonsAt(l) == {i \in 1..Len(l) : l[i] = ":"}
KeyOf(l) == Trimmed(SubSeq(l, 1, SetMin(ColonsAt(l)) - 1))
ValueOf(l) == Trimmed(SubSeq(l, SetMin(ColonsAt(l)) + 1, Len(l)))

LinesOfArg == lines(arg)
NonBlankLines == {i \in 1..Len(LinesOfArg) : Trimmed(LinesOfArg[i]) # <<>>}
ColonLines == {i \in 1..Len(LinesOfArg) : ColonsAt(LinesOfArg[i]) # {}}
LastLineOf(k) == SetMax({i \in ColonLines : KeyOf(LinesOfArg[i]) = k})
KeysDistinct ==
    \A i, j \in ColonLines :
        KeyOf(LinesOfArg[i]) = KeyOf(LinesOfArg[j]) => i = j

\* C8, as stated: when every non-blank line contains a colon, the record
\* has exactly one entry per non-blank line, keyed by the trimmed text
\* before the line's first colon and valued by the trimmed text after it.
C8_OneEntryPerLine ==
    (pc = "returned" /\ NonBlankLines \subseteq ColonLines) =>
        /\ Cardinality(DOMAIN ret) = Cardinality(NonBlankLines)
        /\ \A i \in NonBlankLines :
              /\ KeyOf(LinesOfArg[i]) \in DOMAIN ret
              /\ ret[KeyOf(LinesOfArg[i])] = ValueOf(LinesOfArg[i])

\* C8, amended: the record has exactly one entry per distinct trimmed key
\* of the lines that contain a colon (so one per such line when their keys
\* are pairwise distinct); the value of a key is the trimmed text after the
\* first colon of the last line with that key; a line without a colon
\* contributes no key.
C8_LastWriteWins ==
    pc = "returned" =>
        /\ DOMAIN ret = {KeyOf(LinesOfArg[i]) : i \in ColonLines}
        /\ \A k \in DOMAIN ret : ret[k] = ValueOf(LinesOfArg[LastLineOf(k)])
        /\ KeysDistinct => Cardinality(DOMAIN ret) = Cardinality(ColonLines)

\* two lines with the same key and different values were parsed, beside a
\* line without a colon
C8_Witness ==
    /\ pc = "returned"
    /\ \E i, j \in ColonLines :
          /\ i < j
          /\ KeyOf(LinesOfArg[i]) = KeyOf(LinesOfArg[j])
          /\ ValueOf(LinesOfArg[i]) # ValueOf(LinesOfArg[j])
          /\ ret[KeyOf(LinesOfArg[i])] = ValueOf(LinesOfArg[j])

\* ------------------------------------------------------------ filenames
\* the decompositions of s as stem + digits + "." + ext: <<a, d>> with the
\* stem s[1..a] non-empty and ending in a non-digit, the digits
\* s[a+1..d-1], the dot at d and the extension s[d+1..] non-empty and
\* alphanumeric
Decomps(s) ==
    {ad \in (1..Len(s)) \X (1..Len(s)) :
        /\ ad[1] < ad[2]
        /\ s[ad[1]] \notin Digits
        /\ \A j \in (ad[1] + 1)..(ad[2] - 1) : s[j] \in Digits
        /\ s[ad[2]] = "."
        /\ ad[2] < Len(s)
        /\ \A j \in (ad[2] + 1)..Len(s) : s[j] \in Alnum}

FRE(s, ad) ==
    [k \in {<<"f">>, <<"r">>, <<"e">>} |->
        IF k = <<"f">> THEN SubSeq(s, 1, ad[1])
        ELSE IF k = <<"r">> THEN SubSeq(s, ad[1] + 1, ad[2] - 1)
        ELSE SubSeq(s, ad[2] + 1, Len(s))]

C5_NoShapeNoKeys ==
    pc = "returned" =>
        /\ Decomps(arg) = {} => ret = EmptyVars
        /\ DOMAIN ret \in {{}, {<<"f">>, <<"r">>, <<"e">>}}

\* ------------------------------------------------------------ timestamps
\* the fields of a timestamp, read off the string: the year is the text
\* before the first colon, the hour the two digits after the space
YearText == SubSeq(arg, 1, FindFrom(arg, ":", 1) - 1)
HourOfArg ==
    LET i == FindFrom(arg, " ", 1)
    IN  DigitVal(arg[i + 1]) * 10 + DigitVal(arg[i + 2])
TwoDigits(n) == <<DigitChar(n \div 10), DigitChar(n % 10)>>
Parsed == pc = "returned" /\ ret # EmptyVars

\* C6, as stated: y is the year modulo 100 as exactly 2 decimal digits,
\* zero-padded.
C6_TwoDigitYear ==
    Parsed =>
        /\ Len(ret[<<"y">>]) = 2
        /\ ret[<<"y">>] = TwoDigits(to_int(YearText) % 100)

\* C7, as stated: h is the 12-hour-clock hour as 2 zero-padded digits,
\* "00" (not "12") in the midnight hour, "06" for hour 18.
C7_MidnightIsZero ==
    Parsed =>
        /\ Len(ret[<<"h">>]) = 2
        /\ to_int(ret[<<"h">>]) % 12 = HourOfArg % 12
        /\ HourOfArg = 0 => ret[<<"h">>] = <<"0", "0">>
        /\ HourOfArg = 18 => ret[<<"h">>] = <<"0", "6">>

\* C7, amended: h is the 12-hour-clock hour from 01 to 12 as 2 zero-padded
\* digits; the hours 0 and 12 are rendered "12", hour 18 gives "06".
C7_MidnightIsTwelve ==
    Parsed =>
        /\ ret[<<"h">>] =
              TwoDigits(IF HourOfArg % 12 = 0 THEN 12 ELSE HourOfArg % 12)
        /\ HourOfArg \in {0, 12} => ret[<<"h">>] = <<"1", "2">>
        /\ HourOfArg = 18 => ret[<<"h">>] = <<"0", "6">>

\* a timestamp of the midnight hour was derived
C7_Witness ==
    /\ Parsed
    /\ HourOfArg = 0
    /\ ret[<<"H">>] = <<"0", "0">>
    /\ ret[<<"h">>] = <<"1", "2">>

\* ------------------------------------------------------------ merge
\* C2: in the merged mapping every raw key holds the raw value, every key
\* that is only derived holds the derived value, and the keys are exactly
\* the derived and the raw keys.
C2_RawWins ==
    pc = "returned" =>
        /\ \A k \in DOMAIN arg : ret.merged[k] = arg[k]
        /\ \A k \in DOMAIN ret.derived \ DOMAIN arg :
              ret.merged[k] = ret.derived[k]
        /\ DOMAIN ret.merged = DOMAIN ret.derived \cup DOMAIN arg

\* a record with raw Y, T2 and f, each also derived with another value,
\* was merged
C2_Witness ==
    /\ pc = "returned"
    /\ \A k \in {<<"Y">>, K_T2, <<"f">>} :
          /\ k \in DOMAIN arg
          /\ k \in DOMAIN ret.derived
          /\ ret.derived[k] # arg[k]
          /\ ret.merged[k] = arg[k]
    /\ ret.merged[<<"m">>] = <<"0", "9">>

\* ------------------------------------------------------------ patterns
Braces == {"{", "}"}

\* the placeholders of p as text: <<i, j>> with "{" at i, "}" at j and no
\* brace between them
PlaceholdersAt(p) ==
    {ij \in (1..Len(p)) \X (1..Len(p)) :
        /\ ij[1] < ij[2]
        /\ p[ij[1]] = "{"
        /\ p[ij[2]] = "}"
        /\ \A k \in (ij[1] + 1)..(ij[2] - 1) : p[k] \notin Braces}
NameAt(p, ij) == SubSeq(p, ij[1] + 1, ij[2] - 1)

\* the number of "{" in the unbroken run of "{" that ends at i
RECURSIVE OpenRun(_, _)
OpenRun(p, i) == IF i = 0 \/ p[i] # "{" THEN 0 ELSE 1 + OpenRun(p, i - 1)

\* a placeholder whose "{" is not half of the escape "{{"
Unescaped(p, ij) == OpenRun(p, ij[1]) % 2 = 1

\* main is past format_filename
PastFormat == pc \in {"rename", "print", "done", "panicked"}

\* C1: when the pattern holds a placeholder {name} (its "{" not escaped as
\* "{{") whose name is not a key of the merged mapping, format_filename
\* fails: no filename is returned, nothing is printed and no rename is
\* attempted; the process panics.
C1_MissingKeyFails ==
    (/\ PastFormat
     /\ \E ij \in PlaceholdersAt(pattern) :
           /\ Unescaped(pattern, ij)
           /\ NameAt(pattern, ij) \notin DOMAIN vars) =>
        /\ pc = "panicked"
        /\ filename = None
        /\ renames = 0
        /\ rename_result = "none"
        /\ stdout = <<>>
        /\ exit_code = Some(ExitPanic)

\* format_filename failed on a name that is not a key, after literal text
\* and with a file to rename, although the mapping has other keys
C1_Witness ==
    /\ pc = "panicked"
    /\ readable
    /\ file # None
    /\ pattern = <<"y", "{", "y", "y", "}">>
    /\ <<"y">> \in DOMAIN vars
    /\ stderr[Len(stderr)] = <<"panic", <<"KeyError", <<"y", "y">>>>>>
    /\ filename = None

\* the pattern p with every placeholder of PlaceholdersAt replaced by its
\* value in m and every other character kept
RECURSIVE Subst(_, _)
Subst(p, m) ==
    IF p = <<>> THEN <<>>
    ELSE LET j == FindFrom(p, "}", 1)
         IN  IF Head(p) = "{" /\ <<1, j>> \in PlaceholdersAt(p)
             THEN m[SubSeq(p, 2, j - 1)] \o Subst(Tail2(p, j + 1), m)
             ELSE <<Head(p)>> \o Subst(Tail(p), m)

AllNamesAreKeys ==
    \A ij \in PlaceholdersAt(pattern) : NameAt(pattern, ij) \in DOMAIN vars

\* every brace of p delimits a placeholder with a non-empty name
BracesOnlyDelimit(p) ==
    /\ \A i \in 1..Len(p) :
          p[i] \in Braces => \E ij \in PlaceholdersAt(p) : i \in {ij[1], ij[2]}
    /\ \A ij \in PlaceholdersAt(p) : NameAt(p, ij) # <<>>

\* C3, as stated: for every pattern all of whose placeholders are keys,
\* format_filename returns the pattern with each {name} replaced by its
\* value and all literal text kept.
C3_EveryPattern ==
    (PastFormat /\ readable /\ AllNamesAreKeys) =>
        /\ pc # "panicked"
        /\ filename = Some(Subst(pattern, vars))

\* C3, amended: for every pattern whose braces only delimit placeholders
\* {name} with a non-empty name (no "{{", no "}}", no brace without its
\* partner) and all of whose placeholders are keys, format_filename returns
\* the pattern with each {name} replaced by its value and all literal text
\* kept, in a single pass; the metadata and the pattern of
\* test_format_filename give "230908_185654_iPhone 14_9876.JPG".
C3_WellFormedPattern ==
    /\ (PastFormat /\ readable /\ AllNamesAreKeys
        /\ BracesOnlyDelimit(pattern)) =>
           /\ pc # "panicked"
           /\ filename = Some(Subst(pattern, vars))
    /\ (PastFormat /\ text = ExampleText /\ pattern = ExamplePattern) =>
           filename = Some(ExampleExpected)

\* a value that holds the placeholder {m} was substituted and not
\* substituted again, although m is a key
C3_Witness ==
    /\ pc = "done"
    /\ pattern = <<"y", "{", "y", "}">>
    /\ vars[<<"y">>] = <<"{", "m", "}">>
    /\ <<"m">> \in DOMAIN vars
    /\ filename = Some(<<"y", "{", "m", "}">>)

\* ------------------------------------------------------------ the run of main
\* C9: the rename is attempted at most once, only after format_filename
\* returned the filename and only with a source path; without a source
\* path the filename is printed and no rename is attempted.
C9_RenameOnceAfterFormat ==
    /\ renames <= 1
    /\ (renames = 1) = (rename_result # "none")
    /\ renames = 1 =>
          /\ file # None
          /\ filename # None
          /\ strfmt(pattern, vars).ok
          /\ filename = Some(strfmt(pattern, vars).val)
          /\ pc = "done"
    /\ (pc = "done" /\ file = None) =>
          /\ renames = 0
          /\ stdout = << <<filename>> >>
    /\ (pc = "done" /\ file # None) => renames = 1
    /\ pc \in {"start", "extend", "merge", "format", "rename", "panicked"} =>
          stdout = <<>>

\* a run renamed the file; another run, without a source path, printed
\* the filename
C9_Witness ==
    /\ pc = "done"
    /\ renames = 1
    /\ rename_result = "ok"
    /\ stdout = << <<file, "->", filename>> >>

\* C10, as stated: when the metadata file cannot be read or the rename
\* fails, the failure is reported and the run ends with a non-zero exit
\* status.
C10_BoundaryFailureExitsNonZero ==
    (pc \in {"done", "panicked"} /\ (~readable \/ rename_result = "err")) =>
        /\ stderr # <<>>
        /\ exit_code # None
        /\ exit_code # Some(ExitOk)

====
